---- MODULE Spec2Model ----
(***************************************************************************)
(* A model of go_basic_web_api (src/main.go): the health and weather       *)
(* handlers, the middleware that wraps them (securityHeaders, rateLimiter, *)
(* requestLogger), the routing main registers on the default mux, the      *)
(* rate limiter's shared state under concurrent requests, and the server   *)
(* lifecycle (listen, signal, graceful shutdown).                          *)
(*                                                                         *)
(* A handler is an operator from a call state c and a request r to the     *)
(* call state after the handler returned.  The call state carries the      *)
(* response writer (c.w), the log lines written (c.logs), the stages that  *)
(* ran (c.calls), the rate limiter's package variables (c.requestCounts,   *)
(* c.lastReset), and what the handler reads from outside: the clock        *)
(* (c.now) and the outcome of the upstream call (c.up).                    *)
(***************************************************************************)
EXTENDS Integers, Sequences, FiniteSets, TLC

VARIABLES
    requestCounts,  \* main.go:26, missing keys read as 0
    lastReset,      \* main.go:27
    now,            \* the wall clock, in minutes
    req,            \* the last request handled
    up,             \* the upstream's behaviour during that request
    chain,          \* the handler value that request was given to
    w,              \* the response written for it
    logs,           \* the log lines written while handling it
    calls,          \* the stages that ran for it, in order
    seen,           \* history: requests per address that reached the rate
                    \* limiter since the current window began
    windowStart,    \* history: when the current window began
    pc, tmp, mapOf, outcome, gen, delegated, started, crashed,
                    \* the goroutines of concurrently handled requests
    phase, listening, conns, graceElapsed, lateAccepts
                    \* the process and its server

vars == <<requestCounts, lastReset, now, req, up, chain, w, logs, calls,
          seen, windowStart, pc, tmp, mapOf, outcome, gen, delegated,
          started, crashed, phase, listening, conns, graceElapsed, lateAccepts>>

serveVars == <<requestCounts, lastReset, now, req, up, chain, w, logs, calls,
               seen, windowStart>>
raceVars == <<pc, tmp, mapOf, outcome, gen, delegated, started, crashed>>
lifeVars == <<phase, listening, conns, graceElapsed, lateAccepts>>

---------------------------------------------------------------------------
(* Bounds of the model.                                                    *)

\* How far past maxRequests a client's counter is driven.
MaxOver == 2
\* The clock stops after this many minutes.
MaxTime == 2
\* Connections the server is offered.
MaxConns == 3
\* Requests the second, short-lived connection carries in SpecRace.
MaxShortRequests == 1

---------------------------------------------------------------------------
(* Program constants.                                                      *)

\* main.go:28
maxRequests == 100
\* time.Minute at main.go:79, the clock counting minutes
Minute == 1
\* the grace period of main.go:265, in seconds
ShutdownGrace == 30

RemoteAddrs == {"10.0.0.1:5000", "10.0.0.2:5000"}
ClientA == "10.0.0.1:5000"
Methods == {"GET", "POST", "OPTIONS"}
Paths == {"/api/health", "/api/weather", "/api/health/invalid", "/test"}

\* The eight headers securityHeaders sets (main.go:52-61).
SecurityHeaderSet ==
    [h \in {"X-Content-Type-Options", "X-Frame-Options", "X-XSS-Protection",
            "Strict-Transport-Security", "Content-Security-Policy",
            "Access-Control-Allow-Origin", "Access-Control-Allow-Methods",
            "Access-Control-Allow-Headers"} |->
        CASE h = "X-Content-Type-Options" -> "nosniff"
          [] h = "X-Frame-Options" -> "DENY"
          [] h = "X-XSS-Protection" -> "1; mode=block"
          [] h = "Strict-Transport-Security" -> "max-age=31536000; includeSubDomains"
          [] h = "Content-Security-Policy" -> "default-src 'self'"
          [] h = "Access-Control-Allow-Origin" -> "*"
          [] h = "Access-Control-Allow-Methods" -> "GET, OPTIONS"
          [] OTHER -> "Content-Type, Authorization"]

---------------------------------------------------------------------------
(* Requests.  A request carries its body either with a declared length     *)
(* (Content-Length) or chunked; net/http sets r.ContentLength to the       *)
(* declared length, to 0 when there is no body, and to -1 when the length  *)
(* is not known up front.                                                  *)

BodyLens == {0, 12}

Requests(addrs) ==
    [Method : Methods, Path : Paths, RemoteAddr : addrs,
     bodyLen : BodyLens, chunked : BOOLEAN]

ContentLength(r) == IF r.chunked THEN -1 ELSE r.bodyLen

NoRequest ==
    [Method |-> "", Path |-> "", RemoteAddr |-> "", bodyLen |-> 0,
     chunked |-> FALSE]

---------------------------------------------------------------------------
(* The upstream call of weatherHandler, as the handler observes it:        *)
(*   doErr      why client.Do returned an error ("nil": it returned a      *)
(*              response); the context's deadline ("deadline"), the        *)
(*              inbound request's cancellation ("canceled") or the         *)
(*              transport ("transport");                                   *)
(*   StatusCode the response's status;                                     *)
(*   readErr    why io.ReadAll failed ("nil": it did not); the context's   *)
(*              deadline also ends a body that is still being read;        *)
(*   parseErr   whether json.Unmarshal rejects the body;                   *)
(*   Time, Temperature2m  the decoded hourly arrays.                       *)

Times == {<<>>, <<"00:00">>, <<"00:00", "01:00">>}
Temperatures == {<<>>, <<7>>, <<7, 9>>}

Upstream(doErr, code, readErr, parseErr, T, V) ==
    [doErr |-> doErr, StatusCode |-> code, readErr |-> readErr,
     parseErr |-> parseErr, Time |-> T, Temperature2m |-> V]

NoUpstream == Upstream("nil", 0, "nil", FALSE, <<>>, <<>>)
HealthyUpstream ==
    Upstream("nil", 200, "nil", FALSE, <<"00:00", "01:00">>, <<7, 9>>)

Upstreams ==
    {Upstream(e, 0, "nil", FALSE, <<>>, <<>>) :
        e \in {"deadline", "canceled", "transport"}}
    \cup {Upstream("nil", s, "nil", FALSE, <<>>, <<>>) : s \in {404, 500}}
    \cup {Upstream("nil", 200, e, FALSE, <<>>, <<>>) :
        e \in {"deadline", "canceled", "transport"}}
    \cup {Upstream("nil", 200, "nil", TRUE, <<>>, <<>>)}
    \cup {Upstream("nil", 200, "nil", FALSE, T, V) :
        T \in Times, V \in Temperatures}

\* ctx.Err() when client.Do has returned an error (main.go:175): the context
\* of main.go:155 reports DeadlineExceeded once its deadline has ended the
\* call, Canceled once the inbound request's context was cancelled.
ctxErr(u) ==
    CASE u.doErr = "deadline" -> "DeadlineExceeded"
      [] u.doErr = "canceled" -> "Canceled"
      [] OTHER -> "nil"

---------------------------------------------------------------------------
(* The response writer.  Header changes and status codes after the header  *)
(* was written have no effect; a Write without WriteHeader sends 200.      *)

NewRecorder ==
    [Code |-> 200, wroteHeader |-> FALSE, Header |-> [h \in {} |-> ""],
     Body |-> <<>>]

SetHeader(rw, k, v) ==
    IF rw.wroteHeader THEN rw
    ELSE [rw EXCEPT !.Header = (k :> v) @@ rw.Header]

DelHeader(rw, k) ==
    IF rw.wroteHeader THEN rw
    ELSE [rw EXCEPT !.Header = [h \in DOMAIN rw.Header \ {k} |-> rw.Header[h]]]

WriteHeader(rw, code) ==
    IF rw.wroteHeader THEN rw
    ELSE [rw EXCEPT !.Code = code, !.wroteHeader = TRUE]

Write(rw, chunk) ==
    [WriteHeader(rw, 200) EXCEPT !.Body = Append(@, chunk)]

\* What is written to a body: a chunk of text or one JSON document.
Text(s) == [kind |-> "text", text |-> s, items |-> <<>>]
JSONObject(s) == [kind |-> "json", text |-> s, items |-> <<>>]
JSONNull == [kind |-> "json", text |-> "null", items |-> <<>>]
JSONArray(items) == [kind |-> "json", text |-> "array", items |-> items]
Newline == Text("\n")

\* http.Error: plain text, nosniff, the code, the message and a newline.
Error(rw, msg, code) ==
    LET h1 == DelHeader(rw, "Content-Length")
        h2 == SetHeader(h1, "Content-Type", "text/plain; charset=utf-8")
        h3 == SetHeader(h2, "X-Content-Type-Options", "nosniff")
    IN  Write(Write(WriteHeader(h3, code), Text(msg)), Newline)

---------------------------------------------------------------------------
(* Call states.                                                            *)

Call(counts, reset, clock, u) ==
    [w |-> NewRecorder, logs |-> <<>>, calls |-> <<>>,
     requestCounts |-> counts, lastReset |-> reset, now |-> clock, up |-> u]

Enter(c, stage) == [c EXCEPT !.calls = Append(@, stage)]
Printf(c, line) == [c EXCEPT !.logs = Append(@, line)]
Respond(c, rw) == [c EXCEPT !.w = rw]

---------------------------------------------------------------------------
(* helloHandler (main.go:116-146).  Encoding a HealthResponse cannot fail, *)
(* so the branch of main.go:143-144 is never taken.                        *)

HealthJSON == JSONObject("{\"message\":\"Hello World!\",\"status\":\"success\"}")

\* helloHandler with the path validated before the method
helloHandlerPathFirst(c0, r) ==
    LET c == Enter(c0, "helloHandler") IN
    IF r.Path # "/api/health"
    THEN Respond(c, Error(c.w, "Not found", 404))
    ELSE IF r.Method # "GET"
    THEN Respond(c, Error(c.w, "Method not allowed", 405))
    ELSE IF ContentLength(r) > 0
    THEN Respond(c, Error(c.w, "Request body not allowed", 400))
    ELSE LET h == SetHeader(c.w, "Content-Type", "application/json")
             s == WriteHeader(h, 200)
         IN  Respond(c, Write(Write(s, HealthJSON), Newline))

helloHandler(c0, r) ==
    LET c == Enter(c0, "helloHandler") IN
    IF r.Method # "GET"
    THEN Respond(c, Error(c.w, "Method not allowed", 405))
    ELSE IF r.Path # "/api/health"
    THEN Respond(c, Error(c.w, "Not found", 404))
    ELSE IF ContentLength(r) > 0
    THEN Respond(c, Error(c.w, "Request body not allowed", 400))
    ELSE LET h == SetHeader(c.w, "Content-Type", "application/json")
             s == WriteHeader(h, 200)
         IN  Respond(c, Write(Write(s, HealthJSON), Newline))

---------------------------------------------------------------------------
(* weatherHandler (main.go:148-224).                                       *)

\* A Go slice: the nil slice of `var weatherData []WeatherData`, or a
\* backing array that append allocated.
NilSlice == [nil |-> TRUE, elems |-> <<>>]
append(s, x) == [nil |-> FALSE, elems |-> Append(s.elems, x)]

WeatherData(t, v) == [time |-> t, temperature_2m |-> v]

\* The loop of main.go:208-213, from index i (0-based) with weatherData = acc.
RECURSIVE transform(_, _, _, _)
transform(i, T, V, acc) ==
    IF i < Len(T) /\ i < Len(V)
    THEN transform(i + 1, T, V, append(acc, WeatherData(T[i + 1], V[i + 1])))
    ELSE acc

\* json.NewEncoder(w).Encode of a []WeatherData: a nil slice encodes as
\* null, any other as an array; Encode ends the document with a newline.
EncodeSlice(s) == IF s.nil THEN JSONNull ELSE JSONArray(s.elems)

\* http.NewRequestWithContext with the fixed method and URL of
\* main.go:159-161 returns no error.
newRequestErr == FALSE

weatherHandler(c0, r) ==
    LET c == Enter(c0, "weatherHandler")
        u == c.up
    IN
    IF r.Method # "GET"
    THEN Respond(c, Error(c.w, "Method not allowed", 405))
    ELSE IF newRequestErr
    THEN Respond(Printf(c, "Error creating request"),
                 Error(c.w, "Failed to create weather request", 500))
    ELSE IF u.doErr # "nil"
    THEN IF ctxErr(u) = "DeadlineExceeded"
         THEN Respond(Printf(c, "Weather API request timed out"),
                      Error(c.w, "Weather service timeout", 504))
         ELSE Respond(Printf(c, "Error fetching weather data"),
                      Error(c.w, "Failed to fetch weather data", 500))
    ELSE IF u.StatusCode # 200
    THEN Respond(Printf(c, "Open-Meteo API returned status"),
                 Error(c.w, "Weather service unavailable", 503))
    ELSE IF u.readErr # "nil"
    THEN Respond(Printf(c, "Error reading response body"),
                 Error(c.w, "Failed to read weather data", 500))
    ELSE IF u.parseErr
    THEN Respond(Printf(c, "Error parsing weather data"),
                 Error(c.w, "Failed to parse weather data", 500))
    ELSE LET weatherData == transform(0, u.Time, u.Temperature2m, NilSlice)
             h1 == SetHeader(c.w, "Content-Type", "application/json")
             h2 == SetHeader(h1, "Cache-Control", "public, max-age=300")
             s == WriteHeader(h2, 200)
         IN  Respond(c, Write(Write(s, EncodeSlice(weatherData)), Newline))

\* The handler of main_test.go:128-130 and 160-162.
testHandler(c0, r) ==
    LET c == Enter(c0, "testHandler")
    IN  Respond(c, WriteHeader(c.w, 200))

---------------------------------------------------------------------------
(* The middleware.  A handler value is the sequence of its stages, the     *)
(* outermost first: securityHeaders(rateLimiter(requestLogger(h))) is      *)
(* <<"securityHeaders", "rateLimiter", "requestLogger", h>>.               *)

RECURSIVE ServeHTTP(_, _, _)

\* main.go:48-71
securityHeaders(next, c0, r) ==
    LET c == Enter(c0, "securityHeaders")
        set(rw, h) == SetHeader(rw, h, SecurityHeaderSet[h])
        w1 == set(c.w, "X-Content-Type-Options")
        w2 == set(w1, "X-Frame-Options")
        w3 == set(w2, "X-XSS-Protection")
        w4 == set(w3, "Strict-Transport-Security")
        w5 == set(w4, "Content-Security-Policy")
        w6 == set(w5, "Access-Control-Allow-Origin")
        w7 == set(w6, "Access-Control-Allow-Methods")
        w8 == set(w7, "Access-Control-Allow-Headers")
    IN  IF r.Method = "OPTIONS"
        THEN Respond(c, WriteHeader(w8, 200))
        ELSE ServeHTTP(next, Respond(c, w8), r)

\* main.go:79: the window has passed
windowPassed(clock, reset) == clock - reset > Minute

\* overLimit with the comparison off by one
overLimitAtLimit(count) == count >= maxRequests

\* main.go:87: the counter is over the limit
overLimit(count) == count > maxRequests

\* main.go:80: a fresh map
emptyCounts == [a \in RemoteAddrs |-> 0]

\* main.go:73-94
rateLimiter(next, c0, r) ==
    LET c == Enter(c0, "rateLimiter")
        c1 == IF windowPassed(c.now, c.lastReset)
              THEN [c EXCEPT !.requestCounts = emptyCounts, !.lastReset = c.now]
              ELSE c
        clientIP == r.RemoteAddr
        c2 == [c1 EXCEPT !.requestCounts[clientIP] = @ + 1]
    IN  IF overLimit(c2.requestCounts[clientIP])
        THEN Respond(c2, Error(c2.w, "Rate limit exceeded", 429))
        ELSE ServeHTTP(next, c2, r)

\* main.go:96-114
requestLogger(next, c0, r) ==
    LET c == Enter(c0, "requestLogger")
        c1 == Printf(c, "request")
        c2 == ServeHTTP(next, c1, r)
    IN  Printf(c2, "Response time")

ServeHTTP(h, c, r) ==
    CASE Head(h) = "securityHeaders" -> securityHeaders(Tail(h), c, r)
      [] Head(h) = "rateLimiter" -> rateLimiter(Tail(h), c, r)
      [] Head(h) = "requestLogger" -> requestLogger(Tail(h), c, r)
      [] Head(h) = "helloHandler" -> helloHandler(c, r)
      [] Head(h) = "weatherHandler" -> weatherHandler(c, r)
      [] OTHER -> testHandler(c, r)

---------------------------------------------------------------------------
(* main's routing (main.go:233-247): the server has no Handler of its own, *)
(* so requests go to the default mux, which holds exactly the two patterns *)
(* registered; neither ends in a slash, so each matches its path alone and *)
(* every other path gets the mux's own 404.                                *)

healthHandler == <<"securityHeaders", "rateLimiter", "requestLogger", "helloHandler">>
weatherChain == <<"securityHeaders", "rateLimiter", "requestLogger", "weatherHandler">>
DefaultServeMux == <<"DefaultServeMux">>

NotFound(c0, r) ==
    LET c == Enter(c0, "NotFound")
    IN  Respond(c, Error(c.w, "404 page not found", 404))

Route(c0, r) ==
    LET c == Enter(c0, "DefaultServeMux") IN
    IF r.Path = "/api/health" THEN ServeHTTP(healthHandler, c, r)
    ELSE IF r.Path = "/api/weather" THEN ServeHTTP(weatherChain, c, r)
    ELSE NotFound(c, r)

\* The handler values the repository's tests call directly (main_test.go).
TestHandlers ==
    {<<"helloHandler">>, <<"weatherHandler">>,
     <<"securityHeaders", "helloHandler">>,
     <<"securityHeaders", "testHandler">>}

Handle(h, c, r) == IF h = DefaultServeMux THEN Route(c, r) ELSE ServeHTTP(h, c, r)

---------------------------------------------------------------------------
(* Handling one request: the handler value h is called with request r      *)
(* while the upstream behaves as u, and what it wrote is recorded.         *)

Range(s) == {s[i] : i \in DOMAIN s}

\* The upstream matters to the requests that can reach the outbound call.
UpstreamsFor(r) ==
    IF r.Method = "GET" /\ r.Path = "/api/weather" THEN Upstreams
    ELSE {NoUpstream}

\* The history of the current window, kept beside the program: a window ends
\* with the first request that reaches the rate limiter more than a minute
\* after the window began.
NextSeen(r, limited) ==
    IF ~limited THEN seen
    ELSE IF now - windowStart > Minute
    THEN [a \in RemoteAddrs |-> IF a = r.RemoteAddr THEN 1 ELSE 0]
    ELSE [seen EXCEPT ![r.RemoteAddr] = @ + 1]

NextWindowStart(limited) ==
    IF limited /\ now - windowStart > Minute THEN now ELSE windowStart

Served(h, r, u) ==
    LET c == Handle(h, Call(requestCounts, lastReset, now, u), r)
        limited == "rateLimiter" \in Range(c.calls)
    IN  /\ requestCounts[r.RemoteAddr] < maxRequests + MaxOver
        /\ requestCounts' = c.requestCounts
        /\ lastReset' = c.lastReset
        /\ req' = r
        /\ up' = u
        /\ chain' = h
        /\ w' = c.w
        /\ logs' = c.logs
        /\ calls' = c.calls
        /\ seen' = NextSeen(r, limited)
        /\ windowStart' = NextWindowStart(limited)
        /\ UNCHANGED <<now, raceVars, lifeVars>>

\* A request arrives at the server main built.
Request(r, u) == Served(DefaultServeMux, r, u)

\* A health check from one of the clients arrives at the server.
HealthRequest(addr) ==
    [Method |-> "GET", Path |-> "/api/health", RemoteAddr |-> addr,
     bodyLen |-> 0, chunked |-> FALSE]

HealthCheck(addr) == Served(DefaultServeMux, HealthRequest(addr), NoUpstream)

WeatherRequest(addr) ==
    [Method |-> "GET", Path |-> "/api/weather", RemoteAddr |-> addr,
     bodyLen |-> 0, chunked |-> FALSE]

\* A test calls a handler value directly, as main_test.go does.
Test(h, r, u) == Served(h, r, u)

\* Time passes.
Tick ==
    /\ now < MaxTime
    /\ now' = now + 1
    /\ UNCHANGED <<requestCounts, lastReset, req, up, chain, w, logs, calls,
                   seen, windowStart, raceVars, lifeVars>>

---------------------------------------------------------------------------
(* Concurrent requests.  The server runs each connection's requests in a   *)
(* goroutine of its own, and rateLimiter (main.go:75-93) reads and writes  *)
(* the package variables without a lock.  A goroutine's request takes the  *)
(* steps                                                                   *)
(*   check    main.go:76-82  read the clock, reset when the window passed  *)
(*   read     main.go:85     load requestCounts[clientIP] from the map     *)
(*   write    main.go:85     store the loaded value plus one in that map   *)
(*   compare  main.go:87     compare requestCounts[clientIP] to the limit  *)
(* and the steps of different goroutines interleave.  Goroutine 1 serves a *)
(* long-lived connection, goroutine 2 a short one; both connections come   *)
(* from ClientA.  gen numbers the maps main.go:80 has made: a store lands  *)
(* in the map its load came from, which a reset may have replaced.         *)

Goroutines == {1, 2}

\* Goroutine g may take up another request.
MayStart(g) ==
    /\ requestCounts[ClientA] < maxRequests + MaxOver
    /\ delegated < maxRequests + MaxOver
    /\ g = 2 => started < MaxShortRequests

\* main.go:76-82
Check(g) ==
    /\ ~crashed
    /\ pc[g] = "idle"
    /\ MayStart(g)
    /\ pc' = [pc EXCEPT ![g] = "read"]
    /\ started' = IF g = 2 THEN started + 1 ELSE started
    /\ outcome' = [outcome EXCEPT ![g] = "none"]
    /\ IF windowPassed(now, lastReset)
       THEN /\ requestCounts' = emptyCounts
            /\ lastReset' = now
            /\ gen' = gen + 1
            /\ delegated' = 0
       ELSE UNCHANGED <<requestCounts, lastReset, gen, delegated>>
    /\ UNCHANGED <<now, req, up, chain, w, logs, calls, seen, windowStart,
                   tmp, mapOf, crashed, lifeVars>>

\* main.go:85, the load
Read(g) ==
    /\ ~crashed
    /\ pc[g] = "read"
    /\ tmp' = [tmp EXCEPT ![g] = requestCounts[ClientA]]
    /\ mapOf' = [mapOf EXCEPT ![g] = gen]
    /\ pc' = [pc EXCEPT ![g] = "write"]
    /\ UNCHANGED <<serveVars, outcome, gen, delegated, started, crashed, lifeVars>>

\* main.go:85, the store
WriteBack(g) ==
    /\ ~crashed
    /\ pc[g] = "write"
    /\ requestCounts' =
           IF mapOf[g] = gen
           THEN [requestCounts EXCEPT ![ClientA] = tmp[g] + 1]
           ELSE requestCounts
    /\ pc' = [pc EXCEPT ![g] = "compare"]
    /\ UNCHANGED <<lastReset, now, req, up, chain, w, logs, calls, seen,
                   windowStart, tmp, mapOf, outcome, gen, delegated, started,
                   crashed, lifeVars>>

\* main.go:87-92
Compare(g) ==
    /\ ~crashed
    /\ pc[g] = "compare"
    /\ IF overLimit(requestCounts[ClientA])
       THEN /\ outcome' = [outcome EXCEPT ![g] = "429"]
            /\ UNCHANGED delegated
       ELSE /\ outcome' = [outcome EXCEPT ![g] = "next"]
            /\ delegated' = delegated + 1
    /\ pc' = [pc EXCEPT ![g] = "idle"]
    /\ UNCHANGED <<serveVars, tmp, mapOf, gen, started, crashed, lifeVars>>

\* The Go runtime ends the process ("fatal error: concurrent map writes")
\* when it notices two goroutines inside the same map, one of them storing.
MapFault ==
    /\ ~crashed
    /\ \E g \in Goroutines : \E o \in Goroutines \ {g} :
          pc[g] = "write" /\ pc[o] \in {"write", "compare"}
    /\ crashed' = TRUE
    /\ UNCHANGED <<serveVars, pc, tmp, mapOf, outcome, gen, delegated, started,
                   lifeVars>>

NextRace ==
    \/ \E g \in Goroutines : Check(g)
    \/ \E g \in Goroutines : Read(g)
    \/ \E g \in Goroutines : WriteBack(g)
    \/ \E g \in Goroutines : Compare(g)
    \/ MapFault
    \/ Tick

---------------------------------------------------------------------------
(* The process (main.go:226-273).  A connection is "none" (not yet made),  *)
(* "active" (a request of it is in flight), "idle" (kept alive between     *)
(* requests), "closed", or "drained" (closed by the server once the        *)
(* request that was in flight during the shutdown had completed).          *)
(* server.Shutdown closes the listener and the idle connections, then      *)
(* waits until no connection is active or its context is done, whichever   *)
(* comes first.                                                            *)

Conns == 1..MaxConns

inFlight == {k \in Conns : conns[k] = "active"}

\* main.go:250-255: ListenAndServe binds the port ...
Listen ==
    /\ phase = "starting"
    /\ phase' = "serving"
    /\ listening' = TRUE
    /\ UNCHANGED <<serveVars, raceVars, conns, graceElapsed, lateAccepts>>

\* ... or fails, and log.Fatal ends the process.
ListenFail ==
    /\ phase = "starting"
    /\ phase' = "failed"
    /\ UNCHANGED <<serveVars, raceVars, listening, conns, graceElapsed, lateAccepts>>

\* The accept loop of ListenAndServe takes a connection and its first request.
Accept(k) ==
    /\ phase \in {"serving", "shutdown"}
    /\ listening
    /\ conns[k] = "none"
    /\ conns' = [conns EXCEPT ![k] = "active"]
    /\ lateAccepts' = IF phase = "shutdown" THEN lateAccepts + 1 ELSE lateAccepts
    /\ UNCHANGED <<serveVars, raceVars, phase, listening, graceElapsed>>

\* A handler returns: the connection is kept alive, unless the server is
\* shutting down.
Complete(k) ==
    /\ phase \in {"serving", "shutdown"}
    /\ conns[k] = "active"
    /\ conns' = [conns EXCEPT ![k] = IF phase = "shutdown" THEN "drained" ELSE "idle"]
    /\ UNCHANGED <<serveVars, raceVars, phase, listening, graceElapsed, lateAccepts>>

\* Another request arrives on a connection that was kept alive.
NextRequest(k) ==
    /\ phase = "serving"
    /\ conns[k] = "idle"
    /\ conns' = [conns EXCEPT ![k] = "active"]
    /\ UNCHANGED <<serveVars, raceVars, phase, listening, graceElapsed, lateAccepts>>

\* The client closes a connection that was kept alive.
Hangup(k) ==
    /\ phase = "serving"
    /\ conns[k] = "idle"
    /\ conns' = [conns EXCEPT ![k] = "closed"]
    /\ UNCHANGED <<serveVars, raceVars, phase, listening, graceElapsed, lateAccepts>>

\* What Shutdown does to the listener when it is called (main.go:268).
listenerAfterShutdown == FALSE

\* main.go:258-268: SIGINT or SIGTERM arrives on quit; main makes the
\* 30-second context and calls server.Shutdown.
Signal ==
    /\ phase \in {"starting", "serving"}
    /\ phase' = "shutdown"
    /\ listening' = (listening /\ listenerAfterShutdown)
    /\ conns' = [k \in Conns |-> IF conns[k] = "idle" THEN "closed" ELSE conns[k]]
    /\ graceElapsed' = 0
    /\ UNCHANGED <<serveVars, raceVars, lateAccepts>>

\* A second of the grace period passes.
GraceTick ==
    /\ phase = "shutdown"
    /\ graceElapsed < ShutdownGrace
    /\ graceElapsed' = graceElapsed + 1
    /\ UNCHANGED <<serveVars, raceVars, phase, listening, conns, lateAccepts>>

\* shutdownErr of a server that is closed rather than shut down: it returns
\* at once, whatever is in flight
shutdownErrClose(active, elapsed) == "nil"

\* What server.Shutdown(ctx) returns (main.go:268): nil once no connection
\* is active, the context's error once the grace period is over, and until
\* then it does not return.
shutdownErr(active, elapsed) ==
    IF active = {} THEN "nil"
    ELSE IF elapsed >= ShutdownGrace THEN "DeadlineExceeded"
    ELSE "pending"

\* main.go:268-272
ShutdownReturns ==
    /\ phase = "shutdown"
    /\ shutdownErr(inFlight, graceElapsed) # "pending"
    /\ phase' = IF shutdownErr(inFlight, graceElapsed) # "nil"
                THEN "forced" ELSE "stopped"
    /\ UNCHANGED <<serveVars, raceVars, listening, conns, graceElapsed, lateAccepts>>

NextLife ==
    \/ Listen
    \/ ListenFail
    \/ \E k \in Conns : Accept(k)
    \/ \E k \in Conns : Complete(k)
    \/ \E k \in Conns : NextRequest(k)
    \/ \E k \in Conns : Hangup(k)
    \/ Signal
    \/ GraceTick
    \/ ShutdownReturns

---------------------------------------------------------------------------

Init ==
    /\ requestCounts = emptyCounts
    /\ lastReset = 0
    /\ now = 0
    /\ req = NoRequest
    /\ up = NoUpstream
    /\ chain = <<>>
    /\ w = NewRecorder
    /\ logs = <<>>
    /\ calls = <<>>
    /\ seen = emptyCounts
    /\ windowStart = 0
    /\ pc = [g \in Goroutines |-> "idle"]
    /\ tmp = [g \in Goroutines |-> 0]
    /\ mapOf = [g \in Goroutines |-> 0]
    /\ outcome = [g \in Goroutines |-> "none"]
    /\ gen = 0
    /\ delegated = 0
    /\ started = 0
    /\ crashed = FALSE
    /\ phase = "starting"
    /\ listening = FALSE
    /\ conns = [k \in Conns |-> "none"]
    /\ graceElapsed = 0
    /\ lateAccepts = 0

\* The server, one request at a time, from one client: any request while
\* the upstream is healthy, and a weather request whatever the upstream does.
Next ==
    \/ \E r \in Requests({ClientA}) : Request(r, HealthyUpstream)
    \/ \E u \in Upstreams : Request(WeatherRequest(ClientA), u)

Spec == Init /\ [][Next]_vars

\* The server under health checks from two clients.
NextRate ==
    \/ \E addr \in RemoteAddrs : HealthCheck(addr)
    \/ Tick

SpecRate == Init /\ [][NextRate]_vars

\* The handler values the tests call, called directly.
NextHandlers ==
    \E h \in TestHandlers : \E r \in Requests({ClientA}) :
        \E u \in UpstreamsFor(r) : Test(h, r, u)

SpecHandlers == Init /\ [][NextHandlers]_vars

\* Two goroutines in the rate limiter.
SpecRace == Init /\ [][NextRace]_vars

\* The process from start to exit.
SpecLife == Init /\ [][NextLife]_vars

---------------------------------------------------------------------------
(* The claims.                                                             *)

handled == req # NoRequest
ran(stage) == stage \in Range(calls)
JSONDocs(body) == SelectSeq(body, LAMBDA ch : ch.kind = "json")
Min(a, b) == IF a < b THEN a ELSE b

HasSecurityHeaders(rw) ==
    \A h \in DOMAIN SecurityHeaderSet :
        h \in DOMAIN rw.Header /\ rw.Header[h] = SecurityHeaderSet[h]

\* C1: of the requests an address sends within one window the first
\* maxRequests (100) are delegated and every later one, the 101st first, is
\* answered 429 without the wrapped handler running; the first request that
\* arrives more than a minute after the last reset clears every counter, so
\* the counters always equal the number of requests of the current window
\* and that request is delegated again.
C1_RateLimit ==
    /\ requestCounts = seen
    /\ lastReset = windowStart
    /\ handled /\ ran("rateLimiter") =>
          LET n == seen[req.RemoteAddr] IN
          /\ n <= maxRequests => ran("requestLogger") /\ w.Code # 429
          /\ n > maxRequests => ~ran("requestLogger") /\ w.Code = 429

\* C1, its case: after a reset, the 101st request of the new window has been
\* answered 429.
C1_Witness ==
    /\ handled
    /\ lastReset > 0
    /\ seen[req.RemoteAddr] = maxRequests + 1
    /\ w.Code = 429

\* C2 as stated: every response of the server carries the eight security
\* headers with their fixed values.
C2_EveryResponseHasSecurityHeaders ==
    handled /\ chain = DefaultServeMux => HasSecurityHeaders(w)

\* C3 as stated: an OPTIONS request to any path is answered 200 with an
\* empty body, and neither the rate limiter, the logger nor a handler runs.
C3_OptionsShortCircuits ==
    handled /\ chain = DefaultServeMux /\ req.Method = "OPTIONS" =>
        /\ w.Code = 200
        /\ w.Body = <<>>
        /\ ~ran("rateLimiter") /\ ~ran("requestLogger")
        /\ ~ran("helloHandler") /\ ~ran("weatherHandler")

\* The handler values that end in helloHandler: the health endpoint.
HealthEndpoint == chain # <<>> /\ chain[Len(chain)] = "helloHandler"

\* C4 as stated: every request to the health endpoint with a method other
\* than GET is answered 405.
C4_NonGetIs405 ==
    handled /\ HealthEndpoint /\ req.Method # "GET" => w.Code = 405

\* C4, amended: every request with a method other than GET that reaches
\* helloHandler is answered 405 "Method not allowed", whatever its path and
\* body; the only such requests to the health endpoint that do not reach
\* helloHandler are the OPTIONS requests securityHeaders answers with 200.
C4_NonGetReachingHandlerIs405 ==
    handled /\ HealthEndpoint /\ req.Method # "GET" =>
        IF ran("helloHandler")
        THEN w.Code = 405 /\ w.Body = <<Text("Method not allowed"), Newline>>
        ELSE req.Method = "OPTIONS" /\ ran("securityHeaders") /\ w.Code = 200

\* C4, its case: a POST with a body to a path that is not /api/health has
\* reached helloHandler.
C4_Witness ==
    /\ handled /\ HealthEndpoint /\ ran("helloHandler")
    /\ req.Method = "POST"
    /\ req.Path = "/api/health/invalid"
    /\ ContentLength(req) > 0

\* C5 as stated: a GET on /api/health that reaches helloHandler is answered
\* 400 without the health payload when its body is not empty, however the
\* length is declared, and 200 with exactly the health payload when it is.
C5_BodyDecides ==
    handled /\ ran("helloHandler") /\ req.Method = "GET"
            /\ req.Path = "/api/health" =>
        IF req.bodyLen > 0
        THEN w.Code = 400 /\ JSONDocs(w.Body) = <<>>
        ELSE w.Code = 200 /\ JSONDocs(w.Body) = <<HealthJSON>>

\* The outbound call ended because the request timeout expired: before the
\* response arrived, or while its body was being read.
TimedOut(u) ==
    \/ u.doErr = "deadline"
    \/ u.doErr = "nil" /\ u.StatusCode = 200 /\ u.readErr = "deadline"

\* The outbound call failed.
Failed(u) ==
    \/ u.doErr # "nil"
    \/ u.StatusCode # 200
    \/ u.readErr # "nil"
    \/ u.parseErr

\* C6 as stated: a timeout gives 504, an upstream status other than 200 gives
\* 503, transport, body-read and parse failures give 500, and no failure
\* gives 200 or a weather record.
C6_FailureMapping ==
    handled /\ ran("weatherHandler") /\ req.Method = "GET" /\ Failed(up) =>
        /\ TimedOut(up) => w.Code = 504
        /\ up.doErr = "nil" /\ up.StatusCode # 200 => w.Code = 503
        /\ up.doErr = "transport" => w.Code = 500
        /\ up.doErr = "nil" /\ up.StatusCode = 200 /\ up.readErr = "transport"
              => w.Code = 500
        /\ up.doErr = "nil" /\ up.StatusCode = 200 /\ up.readErr = "nil"
              => w.Code = 500
        /\ w.Code # 200
        /\ JSONDocs(w.Body) = <<>>

\* C7 as stated: a successful upstream response with arrays T and V is
\* answered 200 with a JSON array of min(len(T), len(V)) records, record i
\* being (T[i], V[i]).
C7_MinLengthArray ==
    handled /\ ran("weatherHandler") /\ req.Method = "GET" /\ ~Failed(up) =>
        /\ w.Code = 200
        /\ JSONDocs(w.Body) =
              <<JSONArray([i \in 1..Min(Len(up.Time), Len(up.Temperature2m)) |->
                              WeatherData(up.Time[i], up.Temperature2m[i])])>>

C9_FailuresLogged ==
    handled /\ chain = DefaultServeMux
            /\ req.Path \in {"/api/health", "/api/weather"}
            /\ w.Code >= 400 =>
        logs # <<>>

\* C10 as stated: between two resets at most maxRequests requests of one
\* address are delegated, however the goroutines interleave.
C10_AtMostLimitDelegated == delegated <= maxRequests

====
